---- MODULE Spec2Model ----
(***************************************************************************)
(* GenieSugar backend (src/app.py): the glucose timeline, the Dexcom sync, *)
(* the threshold alerts of the manual-entry path, the clinician patient    *)
(* summary, and the comment, food log, registration, query and chat        *)
(* handlers.                                                               *)
(*                                                                         *)
(* Units.  A glucose value is an integer number of tenths of mg/dL, so     *)
(* 70 mg/dL is 700 and round(x, 1) is the identity on a stored value.      *)
(* A time is an integer number of hours since the start of the run.        *)
(* A Python None is the empty sequence, a present value v is <<v>>.        *)
(*                                                                         *)
(* Storage.  DATABASE_URL defaults to SQLite, which is what the tables     *)
(* model: foreign keys are not enforced, and a FLOAT column keeps a text   *)
(* that is no number as a text.                                            *)
(***************************************************************************)
EXTENDS Integers, Sequences, FiniteSets, TLC

\* ---------------------------------------------------------------- bounds
MaxReadings == 2
MaxWeeks == 1
MaxRows == 1

\* ------------------------------------------------------- program constants
LowThreshold == 700
HighThreshold == 2000
WindowDays == 7
HttpOk == 200

None == <<>>
Some(v) == <<v>>

\* datetime.timedelta, in hours
timedelta(days, hours) == days * 24 + hours

VARIABLES users, readings, comments, food_logs, now, last, wk

vars == <<users, readings, comments, food_logs, now, last, wk>>

\* ------------------------------------------------------------------ users
\* An email address: its letters folded to lower case, and whether the text
\* holds capitals.  No address modelled here has blanks around it, so strip()
\* leaves it as it is.
Email(name, caps) == [name |-> name, caps |-> caps]

\* str.lower()
lower(e) == [e EXCEPT !.caps = FALSE]

\* The users table before the first request: two patients and a doctor
InitUsers ==
  [u \in {1, 2, 3} |->
     IF u = 1 THEN [role |-> "patient", phone |-> "+15550001", dexcom_id |-> "dex-1",
                    email |-> Email("ann", FALSE)]
     ELSE IF u = 2 THEN [role |-> "patient", phone |-> "", dexcom_id |-> "",
                         email |-> Email("bob", FALSE)]
     ELSE [role |-> "doctor", phone |-> "+15550003", dexcom_id |-> "",
           email |-> Email("doc", FALSE)]]

\* User.query.get(user_id): the row, or None
UserGet(us, user_id) == IF user_id \in DOMAIN us THEN Some(us[user_id]) ELSE None

\* --------------------------------------------------------------- timeline
\* A GlucoseReading row; reading_id is the row's position in the table.
GlucoseReading(user_id, reading_value, timestamp, is_synced) ==
  [user_id |-> user_id, reading_value |-> reading_value,
   timestamp |-> timestamp, is_synced |-> is_synced]

\* The column reading_value holds None or a number; a committed row holds a
\* number.
Value(r) == r.reading_value[1]

\* A value that is a text and no number (a pair, to tell it from a number):
\* the column keeps it as it is, and a query returns it as a str.
TextValue == <<0, 0>>

IsText(r) == r.reading_value = TextValue

\* reading_value is nullable=False: a flush of a row without a value raises
FlushFails(pending) ==
  \E i \in 1..Len(pending) : pending[i].reading_value = None

\* GlucoseReading.query.filter_by(user_id=.., timestamp=..).first() is not None
Exists(rows, user_id, ts) ==
  \E i \in 1..Len(rows) : rows[i].user_id = user_id /\ rows[i].timestamp = ts

\* --------------------------------------------------------------- dispatch
DispatchOutcomes == {"sent", "unconfigured", "rejected", "timeout"}

\* send_email letting the provider's exception reach its caller
send_email_propagates(outcome) ==
  [ret |-> (outcome = "sent"), raised |-> (outcome = "timeout")]

\* send_email: False when the key is missing, when the provider answers
\* anything but 202, and when the call raises; it never raises itself.
send_email(outcome) ==
  [ret |-> (outcome = "sent"), raised |-> FALSE]

\* send_sms: False when the keys are missing or the call raises (a rejected
\* message raises inside the Twilio client); it never raises itself.
send_sms(outcome) ==
  [ret |-> (outcome = "sent"), raised |-> FALSE]

\* ----------------------------------------------------------- manual entry
\* The JSON field reading_value of a request body.
Absent == [kind |-> "absent", v |-> 0]
Text == [kind |-> "text", v |-> 0]
Number(v) == [kind |-> "number", v |-> v]

\* require_json("reading_value"): TRUE when the field is missing or empty
MissingField(data) == data.kind = "absent"

\* float(data["reading_value"]): the number, or a ValueError
ToFloat(data) ==
  IF data.kind = "number" THEN [raised |-> FALSE, v |-> data.v]
  ELSE [raised |-> TRUE, v |-> 0]

\* The thresholds taken as part of the alert ranges
ClassifyInclusive(val) ==
  IF val <= LowThreshold THEN "low"
  ELSE IF val >= HighThreshold THEN "high"
  ELSE "none"

\* The branch of the if / elif on the stored value
Classify(val) ==
  IF val < LowThreshold THEN "low"
  ELSE IF val > HighThreshold THEN "high"
  ELSE "none"

Call(channel, kind, val, reading_id, sent) ==
  [channel |-> channel, kind |-> kind, value |-> val, reading_id |-> reading_id,
   ret |-> sent.ret]

\* The dispatcher calls made for the committed reading reading_id of value
\* val, and whether an exception left the block.
Alerts(user, val, reading_id, email_outcome, sms_outcome) ==
  LET kind == Classify(val) IN
  IF kind = "none" THEN [calls |-> <<>>, raised |-> FALSE]
  ELSE IF user = None THEN [calls |-> <<>>, raised |-> TRUE]
  ELSE LET e == send_email(email_outcome)
           ecall == Call("email", kind, val, reading_id, e) IN
    IF e.raised THEN [calls |-> <<ecall>>, raised |-> TRUE]
    ELSE IF user[1].phone = "" THEN [calls |-> <<ecall>>, raised |-> FALSE]
    ELSE LET m == send_sms(sms_outcome) IN
      [calls |-> <<ecall, Call("sms", kind, val, reading_id, m)>>, raised |-> m.raised]

\* add_glucose_reading for the identity user_id at time t.
add_glucose_reading(db, us, user_id, data, t, email_outcome, sms_outcome) ==
  IF MissingField(data)
    THEN [success |-> FALSE, code |-> 400, reading_id |-> None, db |-> db, calls |-> <<>>]
  ELSE LET f == ToFloat(data) IN
    IF f.raised
      THEN [success |-> FALSE, code |-> 500, reading_id |-> None, db |-> db, calls |-> <<>>]
    ELSE LET db1 == Append(db, GlucoseReading(user_id, Some(f.v), t, FALSE))
             a == Alerts(UserGet(us, user_id), f.v, Len(db1), email_outcome, sms_outcome) IN
      IF a.raised
        THEN [success |-> FALSE, code |-> 500, reading_id |-> None, db |-> db1, calls |-> a.calls]
        ELSE [success |-> TRUE, code |-> 201, reading_id |-> Some(Len(db1)), db |-> db1,
              calls |-> a.calls]

\* ------------------------------------------------------------------- sync
\* A sample of the provider's answer.  systemTime is absent, unparseable, or
\* an ISO-8601 text giving a local time and its UTC offset (both in hours).
NoTime == [kind |-> "absent", local |-> 0, offset |-> 0]
BadTime == [kind |-> "bad", local |-> 0, offset |-> 0]
IsoTime(local, offset) == [kind |-> "iso", local |-> local, offset |-> offset]

Egv(system_time, value) == [systemTime |-> system_time, value |-> value]

\* dtparser.isoparse(system_time).astimezone(timezone.utc): the UTC instant,
\* or an exception for a text that is no ISO-8601 time
isoparse_utc(system_time) ==
  IF system_time.kind = "iso"
    THEN [raised |-> FALSE, ts |-> system_time.local - system_time.offset]
    ELSE [raised |-> TRUE, ts |-> 0]

\* The session of one sync call: the rows it added, its counter, and whether
\* an exception left the loop.
NewSession == [pending |-> <<>>, readings_added |-> 0, raised |-> FALSE]

\* The loop body without the existence check
MergeSampleNoExistsCheck(db, user_id, st, reading) ==
  IF st.raised THEN st
  ELSE IF reading.systemTime.kind = "absent" THEN st
  ELSE LET p == isoparse_utc(reading.systemTime) IN
    IF p.raised THEN [st EXCEPT !.raised = TRUE]
    ELSE IF FlushFails(st.pending) THEN [st EXCEPT !.raised = TRUE]
    ELSE [st EXCEPT
            !.pending = Append(@, GlucoseReading(user_id, reading.value, p.ts, TRUE)),
            !.readings_added = @ + 1]

\* The loop body with a query that does not flush the session first: it sees
\* the committed rows only
MergeSampleNoAutoflush(db, user_id, st, reading) ==
  IF st.raised THEN st
  ELSE IF reading.systemTime.kind = "absent" THEN st
  ELSE LET p == isoparse_utc(reading.systemTime) IN
    IF p.raised THEN [st EXCEPT !.raised = TRUE]
    ELSE IF Exists(db, user_id, p.ts) THEN st
    ELSE [st EXCEPT
            !.pending = Append(@, GlucoseReading(user_id, reading.value, p.ts, TRUE)),
            !.readings_added = @ + 1]

\* One pass of the loop body for one sample, against the committed rows db.
\* The existence query autoflushes the session first, so it sees the rows
\* this call added and raises if one of them cannot be written.
MergeSample(db, user_id, st, reading) ==
  IF st.raised THEN st
  ELSE IF reading.systemTime.kind = "absent" THEN st
  ELSE LET p == isoparse_utc(reading.systemTime) IN
    IF p.raised THEN [st EXCEPT !.raised = TRUE]
    ELSE IF FlushFails(st.pending) THEN [st EXCEPT !.raised = TRUE]
    ELSE IF Exists(db \o st.pending, user_id, p.ts) THEN st
    ELSE [st EXCEPT
            !.pending = Append(@, GlucoseReading(user_id, reading.value, p.ts, TRUE)),
            !.readings_added = @ + 1]

\* for reading in data.get("egvs", []): ...
RECURSIVE MergeEgvs(_, _, _, _)
MergeEgvs(db, user_id, st, egvs) ==
  IF egvs = <<>> THEN st
  ELSE MergeEgvs(db, user_id, MergeSample(db, user_id, st, Head(egvs)), Tail(egvs))

\* A failure that commits the rows added before it instead of rolling back
CommitSessionPartial(db, st) ==
  IF st.raised \/ FlushFails(st.pending)
    THEN [ok |-> FALSE,
          db |-> db \o SelectSeq(st.pending, LAMBDA r : r.reading_value # None)]
    ELSE [ok |-> TRUE, db |-> db \o st.pending]

\* A commit that replaces the rows of earlier syncs by the rows of this one
CommitSessionReplaceSynced(db, st) ==
  IF st.raised \/ FlushFails(st.pending)
    THEN [ok |-> FALSE, db |-> db]
    ELSE [ok |-> TRUE, db |-> SelectSeq(db, LAMBDA r : ~r.is_synced) \o st.pending]

\* db.session.commit() of a session, or the rollback of the except branch
CommitSession(db, st) ==
  IF st.raised \/ FlushFails(st.pending)
    THEN [ok |-> FALSE, db |-> db]
    ELSE [ok |-> TRUE, db |-> db \o st.pending]

\* The checks without the one of the access token
SyncPrecheckNoToken(us, user_id, access_token) ==
  LET user == UserGet(us, user_id) IN
  IF user = None \/ user[1].dexcom_id = "" THEN "Dexcom not connected"
  ELSE ""

\* The checks made before the provider is called: "" when they pass
SyncPrecheck(us, user_id, access_token) ==
  LET user == UserGet(us, user_id) IN
  IF user = None \/ user[1].dexcom_id = "" THEN "Dexcom not connected"
  ELSE IF ~access_token THEN "Missing Dexcom access token"
  ELSE ""

SyncFailure(db, error, provider_called) ==
  [success |-> FALSE, error |-> error, readings_added |-> None, db |-> db,
   provider_called |-> provider_called, calls |-> <<>>]

\* The alerts of the inserted rows, as if the loop dispatched one for every
\* inserted value outside the thresholds
RECURSIVE InsertAlerts(_, _)
InsertAlerts(rows, first_id) ==
  IF rows = <<>> THEN <<>>
  ELSE LET val == Value(Head(rows))
           rest == InsertAlerts(Tail(rows), first_id + 1) IN
    IF Classify(val) = "none" THEN rest
    ELSE <<Call("email", Classify(val), val, first_id, send_email("sent"))>> \o rest

\* A sync that alerts on the rows it inserts
sync_dexcom_data_alerting(db, us, user_id, access_token, status, egvs) ==
  LET pre == SyncPrecheck(us, user_id, access_token) IN
  IF pre # "" THEN SyncFailure(db, pre, FALSE)
  ELSE IF status # HttpOk THEN SyncFailure(db, "Dexcom API error", TRUE)
  ELSE LET st == MergeEgvs(db, user_id, NewSession, egvs)
           c == CommitSession(db, st) IN
    IF c.ok
      THEN [success |-> TRUE, error |-> "", readings_added |-> Some(st.readings_added),
            db |-> c.db, provider_called |-> TRUE,
            calls |-> InsertAlerts(st.pending, Len(db) + 1)]
      ELSE SyncFailure(c.db, "exception", TRUE)

\* sync_dexcom_data(user_id) on the committed rows db, with the environment's
\* access token (present or not) and the provider's answer (status, egvs).
sync_dexcom_data(db, us, user_id, access_token, status, egvs) ==
  LET pre == SyncPrecheck(us, user_id, access_token) IN
  IF pre # "" THEN SyncFailure(db, pre, FALSE)
  ELSE IF status # HttpOk THEN SyncFailure(db, "Dexcom API error", TRUE)
  ELSE LET st == MergeEgvs(db, user_id, NewSession, egvs)
           c == CommitSession(db, st) IN
    IF c.ok
      THEN [success |-> TRUE, error |-> "", readings_added |-> Some(st.readings_added),
            db |-> c.db, provider_called |-> TRUE, calls |-> <<>>]
      ELSE SyncFailure(c.db, "exception", TRUE)

\* ---------------------------------------------------------------- summary
\* A query without the lower bound on the timestamp
InWindowUnbounded(ts, t) == TRUE

\* timestamp >= seven_days_ago
InWindow(ts, t) == ts >= t - timedelta(WindowDays, 0)

\* The positions of the rows of user_id in the window, in table order
RECURSIVE WindowRows(_, _, _, _)
WindowRows(db, user_id, t, i) ==
  IF i > Len(db) THEN <<>>
  ELSE IF db[i].user_id = user_id /\ InWindow(db[i].timestamp, t)
    THEN <<i>> \o WindowRows(db, user_id, t, i + 1)
    ELSE WindowRows(db, user_id, t, i + 1)

\* ids sorted by timestamp, equal timestamps in table order (an index scan)
RECURSIVE ByTimestamp(_, _)
ByTimestamp(db, ids) ==
  IF ids = <<>> THEN <<>>
  ELSE LET m == CHOOSE i \in 1..Len(ids) :
                  \A j \in 1..Len(ids) :
                    \/ db[ids[i]].timestamp < db[ids[j]].timestamp
                    \/ db[ids[i]].timestamp = db[ids[j]].timestamp /\ ids[i] <= ids[j]
       IN <<ids[m]>> \o ByTimestamp(db, SelectSeq(ids, LAMBDA x : x # ids[m]))

\* The query of the patient's rows has no ORDER BY: the rows come in the
\* order of the access path the engine picks, the table ("rowid") or the
\* index on timestamp ("timestamp").
QueryWindow(db, user_id, t, plan) ==
  LET ids == WindowRows(db, user_id, t, 1) IN
  IF plan = "rowid" THEN ids ELSE ByTimestamp(db, ids)

RECURSIVE SumValues(_, _)
SumValues(db, ids) ==
  IF ids = <<>> THEN 0 ELSE Value(db[Head(ids)]) + SumValues(db, Tail(ids))

\* round(total / n, 1) in tenths, for total >= 0: the nearest tenth, a tie
\* going to the even one
RoundedMean(total, n) ==
  LET q == total \div n
      r == total % n IN
  IF 2 * r < n THEN q
  ELSE IF 2 * r > n THEN q + 1
  ELSE IF q % 2 = 0 THEN q ELSE q + 1

\* One entry of patient_list
PatientSummary(db, user_id, t, plan) ==
  LET ids == QueryWindow(db, user_id, t, plan)
      n == Len(ids)
      total == SumValues(db, ids)
      last_reading == IF n > 0 THEN Some(Value(db[ids[n]])) ELSE None
      avg_glucose == IF n > 0 THEN Some(RoundedMean(total, n)) ELSE None IN
  [last_reading |-> IF last_reading # None /\ last_reading[1] # 0 THEN last_reading ELSE None,
   avg_glucose |-> IF avg_glucose # None /\ total # 0 THEN avg_glucose ELSE None,
   readings_count |-> n]

Patients(us) == {u \in DOMAIN us : us[u].role = "patient"}

\* sum(values) raises a TypeError when a row of the window holds a text
SummaryRaises(db, user_id, t) ==
  \E i \in 1..Len(db) :
    db[i].user_id = user_id /\ InWindow(db[i].timestamp, t) /\ IsText(db[i])

\* get_doctor_patients at time t: one try block around the loop over the
\* patients, so an exception for one patient is the answer of the request
get_doctor_patients(db, us, t, plan) ==
  IF \E p \in Patients(us) : SummaryRaises(db, p, t)
    THEN [success |-> FALSE, code |-> 500, patients |-> <<>>]
    ELSE [success |-> TRUE, code |-> 200,
          patients |-> [p \in Patients(us) |-> PatientSummary(db, p, t, plan)]]

\* ------------------------------------------------ comments, food, users
\* A Comment row; comment_id is the row's position in the table.
Comment(patient_id, provider_id) == [patient_id |-> patient_id, provider_id |-> provider_id]

\* POST /api/doctor/patients/<patient_id>/comments.  The row is committed
\* before the patient is looked up; no foreign key stops a patient_id
\* without a user, whose lookup is None and whose .email raises; the
\* rollback of the except branch then finds nothing to undo.  A
\* comment_text that is a number raises in html.escape, before the row.
add_doctor_comment(cm, us, patient_id, doctor_id, data, email_outcome) ==
  IF MissingField(data)
    THEN [success |-> FALSE, code |-> 400, comment_id |-> None, cm |-> cm, calls |-> <<>>]
  ELSE IF data.kind = "number"
    THEN [success |-> FALSE, code |-> 500, comment_id |-> None, cm |-> cm, calls |-> <<>>]
  ELSE LET cm1 == Append(cm, Comment(patient_id, doctor_id))
           patient == UserGet(us, patient_id) IN
    IF patient = None
      THEN [success |-> FALSE, code |-> 500, comment_id |-> None, cm |-> cm1, calls |-> <<>>]
      ELSE [success |-> TRUE, code |-> 201, comment_id |-> Some(Len(cm1)), cm |-> cm1,
            calls |-> <<[kind |-> "email", to |-> patient_id,
                         delivered |-> send_email(email_outcome)]>>]

\* A FoodLog row; log_id is the row's position in the table.
FoodLog(user_id, timestamp) == [user_id |-> user_id, timestamp |-> timestamp]

\* POST /api/food-logs
food_logs_post(fl, user_id, data, t) ==
  IF MissingField(data)
    THEN [success |-> FALSE, code |-> 400, log_id |-> None, fl |-> fl]
    ELSE LET fl1 == Append(fl, FoodLog(user_id, t)) IN
      [success |-> TRUE, code |-> 201, log_id |-> Some(Len(fl1)), fl |-> fl1]

\* The body of a registration: email is None or an address, date_of_birth
\* is "" (not given), "ok" (a %Y-%m-%d date) or "bad" (any other text)
RegisterData(email, date_of_birth) == [email |-> email, date_of_birth |-> date_of_birth]

\* User.query.filter_by(email=..).first() is not None
EmailTaken(us, email) == \E u \in DOMAIN us : us[u].email = email

\* The key the table gives the next row: the keys are 1..n, no handler
\* deletes a user
NextUserId(us) == Cardinality(DOMAIN us) + 1

\* POST /api/auth/register.  The existence check compares the address as it
\* was sent, the row stores it in lower case, and the unique index raises
\* at the commit for an address the check let through.  The body names no
\* role, phone or Dexcom account.
register(us, data) ==
  IF data.email = None
    THEN [success |-> FALSE, code |-> 400, user_id |-> None, us |-> us]
  ELSE IF EmailTaken(us, data.email[1])
    THEN [success |-> FALSE, code |-> 400, user_id |-> None, us |-> us]
  ELSE IF data.date_of_birth = "bad"
    THEN [success |-> FALSE, code |-> 500, user_id |-> None, us |-> us]
  ELSE IF EmailTaken(us, lower(data.email[1]))
    THEN [success |-> FALSE, code |-> 500, user_id |-> None, us |-> us]
  ELSE LET id == NextUserId(us)
           user == [role |-> "patient", phone |-> "", dexcom_id |-> "",
                    email |-> lower(data.email[1])] IN
    [success |-> TRUE, code |-> 201, user_id |-> Some(id),
     us |-> [u \in DOMAIN us \cup {id} |-> IF u = id THEN user ELSE us[u]]]

\* GET /api/glucose?days=..: the ids of the user's readings of the last
\* days; round() raises for a value that is a text
get_glucose_readings(db, user_id, days, t) ==
  LET ids == {i \in 1..Len(db) : db[i].user_id = user_id
                                  /\ db[i].timestamp >= t - timedelta(days, 0)} IN
  IF \E i \in ids : IsText(db[i])
    THEN [success |-> FALSE, code |-> 500, ids |-> {}]
    ELSE [success |-> TRUE, code |-> 200, ids |-> ids]

\* POST /api/ai/chat: reads the user's readings, answers what the model
\* answered or the message of a failed call, always with status 200
ai_chat(db, us, user_id, data, answered) ==
  IF MissingField(data) THEN [success |-> FALSE, code |-> 400]
  ELSE IF UserGet(us, user_id) = None THEN [success |-> FALSE, code |-> 500]
  ELSE [success |-> answered, code |-> 200]

\* ----------------------------------------------------------------- inputs
\* Values a client submits (tenths of mg/dL): the two thresholds, and 1 and
\* 0.1 mg/dL outside each
ManualValues == {690, 699, 700, 2000, 2001, 2010}

\* The two of them used where the timeline also takes syncs and summaries:
\* one that alerts and one that does not
TimelineValues == {699, 2000}

\* Identities that submit readings: the two patients
Submitters == {1, 2}

\* Samples the provider may return at time t
SampleNow(t) == Egv(IsoTime(t, 0), Some(1000))
SampleEarlier(t) == Egv(IsoTime(t, 1), Some(650))
SampleNoValue(t) == Egv(IsoTime(t - 1, 0), None)
SampleBadTime == Egv(BadTime, Some(1000))
SampleNoTime == Egv(NoTime, Some(1000))

\* Answers of the provider at time t: nothing, one sample, two instants, the
\* same sample twice, one instant in two texts (the second without a value),
\* a sample without a value alone and after a good one, an unparseable time
\* after a good sample, and a sample without a time before a good one.
Responses(t) ==
  { <<>>,
    <<SampleNow(t)>>,
    <<SampleEarlier(t)>>,
    <<SampleNow(t), SampleEarlier(t)>>,
    <<SampleEarlier(t), SampleEarlier(t)>>,
    <<SampleEarlier(t), SampleNoValue(t)>>,
    <<SampleNoValue(t)>>,
    <<SampleNow(t), SampleNoValue(t)>>,
    <<SampleNow(t), SampleBadTime>>,
    <<SampleNoTime, SampleNow(t)>> }

SyncInput(user_id, access_token, status, egvs) ==
  [user_id |-> user_id, access_token |-> access_token, status |-> status, egvs |-> egvs]

\* Sync calls at time t: user 1 is linked, user 2 is not, id 4 has no row;
\* the access token is set or not; the provider answers 200 or 502.
SyncInputs(t) ==
  { SyncInput(2, TRUE, HttpOk, <<SampleNow(t)>>),
    SyncInput(4, TRUE, HttpOk, <<SampleNow(t)>>),
    SyncInput(1, FALSE, HttpOk, <<SampleNow(t)>>),
    SyncInput(1, TRUE, 502, <<SampleNow(t)>>) }
  \cup { SyncInput(1, TRUE, HttpOk, egvs) : egvs \in Responses(t) }

Plans == {"rowid", "timestamp"}

Workers == {1, 2}

\* A request thread: idle, inside the loop of a sync call, or returned
IdleWorker == [pc |-> "idle"]

\* ---------------------------------------------------------------- actions
Init ==
  /\ users = InitUsers
  /\ readings = <<>>
  /\ comments = <<>>
  /\ food_logs = <<>>
  /\ now = 0
  /\ last = [op |-> "none"]
  /\ wk = [w \in Workers |-> IdleWorker]

\* The clock advances by the length of the summary window.
Tick ==
  /\ now < MaxWeeks * timedelta(WindowDays, 0)
  /\ now' = now + timedelta(WindowDays, 0)
  /\ UNCHANGED <<comments, food_logs, users, readings, last, wk>>

\* POST /api/glucose with a body whose reading_value is absent, a text that
\* is no number, or one of values.  A dispatcher outcome that no call reads
\* is fixed to "sent".
Submit(values) ==
  \E user_id \in Submitters, data \in {Absent, Text} \cup {Number(v) : v \in values},
     email_outcome \in DispatchOutcomes, sms_outcome \in DispatchOutcomes :
    LET r == add_glucose_reading(readings, users, user_id, data, now,
                                 email_outcome, sms_outcome) IN
    /\ Len(readings) < MaxReadings
    /\ Len(r.calls) < 1 => email_outcome = "sent"
    /\ Len(r.calls) < 2 => sms_outcome = "sent"
    /\ readings' = r.db
    /\ last' = [op |-> "add_glucose", user_id |-> user_id, data |-> data,
                success |-> r.success, code |-> r.code,
                reading_id |-> r.reading_id, calls |-> r.calls]
    /\ UNCHANGED <<comments, food_logs, users, now, wk>>

AddGlucoseReading == Submit(TimelineValues)

\* POST /api/glucose/sync-dexcom, run from its first line to its last, for
\* one of inputs
Sync(inputs) ==
  \E in \in inputs :
    LET r == sync_dexcom_data(readings, users, in.user_id, in.access_token,
                              in.status, in.egvs) IN
    /\ Len(r.db) <= MaxReadings
    /\ readings' = r.db
    /\ last' = [op |-> "sync", in |-> in,
                success |-> r.success, error |-> r.error,
                readings_added |-> r.readings_added,
                provider_called |-> r.provider_called, calls |-> r.calls]
    /\ UNCHANGED <<comments, food_logs, users, now, wk>>

SyncDexcom == Sync(SyncInputs(now))

\* GET /api/doctor/patients
GetDoctorPatients ==
  \E plan \in Plans :
    LET r == get_doctor_patients(readings, users, now, plan) IN
    /\ last' = [op |-> "patients", plan |-> plan, t |-> now,
                success |-> r.success, code |-> r.code, patients |-> r.patients]
    /\ UNCHANGED <<comments, food_logs, users, readings, now, wk>>

Next ==
  \/ Tick
  \/ AddGlucoseReading
  \/ SyncDexcom
  \/ GetDoctorPatients

Spec == Init /\ [][Next]_vars

\* The manual-entry path alone, over every value of ManualValues
AddGlucoseReadingAny == Submit(ManualValues)

NextAlerts == AddGlucoseReadingAny

SpecAlerts == Init /\ [][NextAlerts]_vars

\* The summary over a timeline that takes the value 0 and a sample whose
\* value is a text
SummaryValues == {0, 2000}

SampleText(t) == Egv(IsoTime(t, 0), TextValue)

SummarySyncInputs(t) ==
  { SyncInput(1, TRUE, HttpOk, <<SampleText(t)>>),
    SyncInput(1, TRUE, HttpOk, <<SampleEarlier(t)>>) }

AddGlucoseReadingSummary == Submit(SummaryValues)

SyncDexcomSummary == Sync(SummarySyncInputs(now))

NextSummary ==
  \/ Tick
  \/ AddGlucoseReadingSummary
  \/ SyncDexcomSummary
  \/ GetDoctorPatients

SpecSummary == Init /\ [][NextSummary]_vars

\* Every handler that reads or writes the store, each over a few inputs and
\* all at one instant: no handler's write depends on the clock
WriteValues == {2000}

WriteSyncInputs(t) ==
  { SyncInput(1, TRUE, HttpOk, <<SampleNow(t)>>),
    SyncInput(1, TRUE, HttpOk, <<SampleEarlier(t)>>),
    SyncInput(1, TRUE, HttpOk, <<SampleNow(t), SampleNoValue(t)>>) }

\* Patient ids a comment is addressed to: a patient, and an id of no user
CommentTargets == {1, 9}

\* The doctor who comments
Commenter == 3

RegisterInputs ==
  { RegisterData(None, ""),
    RegisterData(Some(Email("ann", FALSE)), ""),
    RegisterData(Some(Email("ann", TRUE)), ""),
    RegisterData(Some(Email("new", TRUE)), "ok"),
    RegisterData(Some(Email("new", FALSE)), "bad") }

AddGlucoseReadingWrites == Submit(WriteValues)

SyncDexcomWrites == Sync(WriteSyncInputs(now))

\* POST /api/doctor/patients/<patient_id>/comments by the doctor
AddDoctorComment ==
  \E patient_id \in CommentTargets, data \in {Absent, Text, Number(0)},
     email_outcome \in DispatchOutcomes :
    LET r == add_doctor_comment(comments, users, patient_id, Commenter, data,
                                email_outcome) IN
    /\ Len(comments) < MaxRows
    /\ Len(r.calls) < 1 => email_outcome = "sent"
    /\ comments' = r.cm
    /\ last' = [op |-> "add_comment", patient_id |-> patient_id, data |-> data,
                success |-> r.success, code |-> r.code,
                comment_id |-> r.comment_id, calls |-> r.calls]
    /\ UNCHANGED <<food_logs, users, readings, now, wk>>

\* POST /api/food-logs by patient 1
FoodLogsPost ==
  \E data \in {Absent, Text} :
    LET r == food_logs_post(food_logs, 1, data, now) IN
    /\ Len(food_logs) < MaxRows
    /\ food_logs' = r.fl
    /\ last' = [op |-> "add_food_log", data |-> data,
                success |-> r.success, code |-> r.code, log_id |-> r.log_id]
    /\ UNCHANGED <<comments, users, readings, now, wk>>

\* POST /api/auth/register
Register ==
  \E data \in RegisterInputs :
    LET r == register(users, data) IN
    /\ Cardinality(DOMAIN users) < Cardinality(DOMAIN InitUsers) + MaxRows
    /\ users' = r.us
    /\ last' = [op |-> "register", data |-> data,
                success |-> r.success, code |-> r.code, user_id |-> r.user_id]
    /\ UNCHANGED <<comments, food_logs, readings, now, wk>>

\* GET /api/glucose by patient 1, with the default days
GetGlucoseReadings ==
  LET r == get_glucose_readings(readings, 1, WindowDays, now) IN
  /\ last' = [op |-> "get_glucose", success |-> r.success, code |-> r.code,
              ids |-> r.ids]
  /\ UNCHANGED <<comments, food_logs, users, readings, now, wk>>

\* POST /api/ai/chat by patient 1
AiChat ==
  \E data \in {Absent, Text}, answered \in BOOLEAN :
    LET r == ai_chat(readings, users, 1, data, answered) IN
    /\ MissingField(data) => answered
    /\ last' = [op |-> "chat", data |-> data, success |-> r.success, code |-> r.code]
    /\ UNCHANGED <<comments, food_logs, users, readings, now, wk>>

NextWrites ==
  \/ AddGlucoseReadingWrites
  \/ SyncDexcomWrites
  \/ GetDoctorPatients
  \/ AddDoctorComment
  \/ FoodLogsPost
  \/ Register
  \/ GetGlucoseReadings
  \/ AiChat

SpecWrites == Init /\ [][NextWrites]_vars

\* ------------------------------------------------------- concurrent syncs
\* Two request threads each run one sync call.  Every thread has its own
\* session: db.session.add and the autoflush write into the thread's open
\* transaction, which the other thread's queries do not see before the
\* commit.  No lock is taken and the table has no unique constraint on
\* (user_id, timestamp).

\* Lines 160-187: the checks, the provider call and the start of the loop
SyncBegin(w) ==
  \E in \in SyncInputs(now) :
    LET pre == SyncPrecheck(users, in.user_id, in.access_token) IN
    /\ wk[w].pc = "idle"
    /\ wk' = [wk EXCEPT ![w] =
         IF pre # "" \/ in.status # HttpOk
           THEN [pc |-> "done", in |-> in, success |-> FALSE, readings_added |-> None]
           ELSE [pc |-> "loop", in |-> in, egvs |-> in.egvs, st |-> NewSession]]
    /\ UNCHANGED <<comments, food_logs, users, readings, now, last>>

\* Lines 189-209: the loop body for the next sample
SyncSample(w) ==
  /\ wk[w].pc = "loop"
  /\ wk[w].egvs # <<>>
  /\ ~wk[w].st.raised
  /\ wk' = [wk EXCEPT
       ![w].st = MergeSample(readings, wk[w].in.user_id, @, Head(wk[w].egvs)),
       ![w].egvs = Tail(@)]
  /\ UNCHANGED <<comments, food_logs, users, readings, now, last>>

\* Lines 211-215: the commit and the return, or the rollback of the except
\* branch
SyncCommit(w) ==
  /\ wk[w].pc = "loop"
  /\ wk[w].egvs = <<>> \/ wk[w].st.raised
  /\ LET c == CommitSession(readings, wk[w].st) IN
       /\ readings' = c.db
       /\ wk' = [wk EXCEPT ![w] =
            [pc |-> "done", in |-> wk[w].in, success |-> c.ok,
             readings_added |-> IF c.ok THEN Some(wk[w].st.readings_added) ELSE None]]
  /\ UNCHANGED <<comments, food_logs, users, now, last>>

NextConc ==
  \E w \in Workers :
    \/ SyncBegin(w)
    \/ SyncSample(w)
    \/ SyncCommit(w)

SpecConc == Init /\ [][NextConc]_vars

\* ----------------------------------------------------------------- claims
\* The positions of the rows of user_id with timestamp ts
RowsAt(db, user_id, ts) ==
  {i \in 1..Len(db) : db[i].user_id = user_id /\ db[i].timestamp = ts}

\* The instants of the samples of a provider answer that carry a readable time
InstantsOf(egvs) ==
  {egvs[i].systemTime.local - egvs[i].systemTime.offset :
     i \in {j \in 1..Len(egvs) : egvs[j].systemTime.kind = "iso"}}

BothSyncsCommitted ==
  /\ \A w \in Workers : wk[w].pc = "done" /\ wk[w].success
  /\ wk[1].in.user_id = wk[2].in.user_id

\* C1: when two concurrent sync calls of one user have both committed, every
\* instant that both provider answers contain has exactly one reading of that
\* user in the timeline.
C1_ConcurrentSyncInsertsOnce ==
  BothSyncsCommitted =>
    \A ts \in InstantsOf(wk[1].in.egvs) \cap InstantsOf(wk[2].in.egvs) :
      Cardinality(RowsAt(readings, wk[1].in.user_id, ts)) = 1

\* The last request was a sync that reached the provider and got an answer
\* with status 200.
SyncMerged ==
  /\ last.op = "sync"
  /\ last.provider_called
  /\ last.in.status = 200

\* C2: after a sync call, the same call again with the same provider answer
\* leaves the timeline as it is, ends as the first call ended (success or
\* failure) and, when it succeeds, reports readings_added = 0.
C2_SyncIdempotent ==
  SyncMerged =>
    LET again == sync_dexcom_data(readings, users, last.in.user_id,
                                  last.in.access_token, last.in.status, last.in.egvs) IN
    /\ again.db = readings
    /\ again.success = last.success
    /\ again.success => again.readings_added = Some(0)

\* C2 witness: a sync has just inserted readings, so that the second call
\* meets every sample of its answer in the timeline.
C2_Witness ==
  /\ SyncMerged
  /\ last.success
  /\ last.readings_added = Some(2)

\* C3: a sync call that reports failure leaves the committed timeline as it
\* was before the call, whatever it had added before the failure.
C3_FailedSyncRollsBack ==
  [][(last'.op = "sync" /\ ~last'.success) => readings' = readings]_vars

\* C3 witness: a sync failed on its second sample after its first sample, one
\* with a value and an instant the timeline did not hold, had been added.
C3_Witness ==
  /\ SyncMerged
  /\ ~last.success
  /\ Len(last.in.egvs) = 2
  /\ last.in.egvs[1].systemTime.kind = "iso"
  /\ last.in.egvs[1].value # None
  /\ readings # <<>>
  /\ RowsAt(readings, last.in.user_id,
            last.in.egvs[1].systemTime.local - last.in.egvs[1].systemTime.offset) = {}

\* C4: a manual submission with a numeric value reports success, returns the
\* id of the new reading and leaves that reading committed, whatever the
\* e-mail and SMS dispatchers did.
C4_SubmissionSucceedsWhateverDispatchDoes ==
  (last.op = "add_glucose" /\ last.data.kind = "number") =>
    /\ last.success
    /\ last.reading_id = Some(Len(readings))
    /\ readings[Len(readings)].user_id = last.user_id
    /\ readings[Len(readings)].reading_value = Some(last.data.v)
    /\ readings[Len(readings)].is_synced = FALSE

\* C4 witness: a value below 70 mg/dL was submitted by a user with a phone
\* number, and both the e-mail and the SMS dispatch failed.
C4_Witness ==
  /\ last.op = "add_glucose"
  /\ last.data.kind = "number"
  /\ last.data.v < 700
  /\ Len(last.calls) = 2
  /\ \A i \in 1..Len(last.calls) : ~last.calls[i].ret

\* The kinds of the alerts the last submission dispatched
DispatchedKinds == {last.calls[i].kind : i \in 1..Len(last.calls)}

\* C5: a manual submission of value v dispatches a low alert exactly when
\* v < 70 mg/dL, a high alert exactly when v > 200 mg/dL, and no alert for
\* 70 <= v <= 200, whoever submits it.
C5_AlertDecidedByValue ==
  (last.op = "add_glucose" /\ last.data.kind = "number") =>
    /\ ("low" \in DispatchedKinds) <=> (last.data.v < 700)
    /\ ("high" \in DispatchedKinds) <=> (last.data.v > 2000)
    /\ (last.data.v >= 700 /\ last.data.v <= 2000) => last.calls = <<>>
    /\ \A i \in 1..Len(last.calls) : last.calls[i].value = last.data.v

\* C5 witness: exactly 200 mg/dL was submitted and nothing was dispatched.
C5_Witness ==
  /\ last.op = "add_glucose"
  /\ last.data = Number(2000)
  /\ last.calls = <<>>
  /\ last.success

\* The positions of the rows of patient p whose timestamp is within the 7 days
\* (168 hours) before the time t of a summary request
TrailingRows(p, t) ==
  {i \in 1..Len(readings) : readings[i].user_id = p /\ readings[i].timestamp >= t - 168}

\* Those of them with the greatest timestamp
LatestRows(p, t) ==
  {i \in TrailingRows(p, t) :
     \A j \in TrailingRows(p, t) : readings[j].timestamp <= readings[i].timestamp}

\* C6: in a patient summary, a last_reading that is given is the value of a
\* reading with the greatest timestamp among the patient's readings of the
\* trailing 7 days, whatever the order of insertion.
C6_LastReadingIsLatest ==
  last.op = "patients" =>
    \A p \in DOMAIN last.patients :
      last.patients[p].last_reading # None =>
        \E i \in LatestRows(p, last.t) :
          last.patients[p].last_reading = readings[i].reading_value

\* C7: a sync for an id without a user row or without a linked device, or
\* without an access token, reports failure and does not call the provider;
\* a sync whose provider answers another status than 200 reports failure; in
\* each case the timeline is left as it was.
C7_FailureBeforeMergeWritesNothing ==
  [][last'.op = "sync" =>
       LET in == last'.in
           not_connected == \/ in.user_id \notin DOMAIN users
                            \/ users[in.user_id].dexcom_id = "" IN
       /\ (not_connected \/ ~in.access_token) =>
            ~last'.success /\ ~last'.provider_called /\ readings' = readings
       /\ in.status # 200 => ~last'.success /\ readings' = readings]_vars

\* C7 witness: a sync of the linked user without an access token has failed
\* on a timeline that holds readings.
C7_Witness ==
  /\ last.op = "sync"
  /\ last.in.user_id = 1
  /\ ~last.in.access_token
  /\ ~last.success
  /\ readings # <<>>

\* C8: no two device-sourced readings of one user share a timestamp.
C8_NoDuplicateDeviceReadings ==
  \A i, j \in 1..Len(readings) :
    (/\ i # j
     /\ readings[i].is_synced
     /\ readings[j].is_synced
     /\ readings[i].user_id = readings[j].user_id)
      => readings[i].timestamp # readings[j].timestamp

\* C8 witness: a sync whose answer held one instant twice has succeeded and
\* inserted one reading.
C8_Witness ==
  /\ SyncMerged
  /\ last.success
  /\ Len(last.in.egvs) = 2
  /\ Cardinality(InstantsOf(last.in.egvs)) = 1
  /\ last.readings_added = Some(1)

\* C9: a sync call makes no dispatcher call, whatever values it inserts; the
\* dispatcher calls of a request are those of a manual submission, each for
\* the committed, manually entered reading the request created.
C9_SyncNeverDispatches ==
  /\ last.op = "sync" => last.calls = <<>>
  /\ last.op = "add_glucose" =>
       \A i \in 1..Len(last.calls) :
         LET id == last.calls[i].reading_id IN
         /\ id \in 1..Len(readings)
         /\ ~readings[id].is_synced
         /\ readings[id].reading_value = Some(last.calls[i].value)

\* C9 witness: a sync has inserted a reading below 70 mg/dL.
C9_Witness ==
  /\ SyncMerged
  /\ last.success
  /\ last.readings_added # Some(0)
  /\ \E i \in 1..Len(readings) : readings[i].is_synced /\ Value(readings[i]) < 700

NoData == [last_reading |-> None, avg_glucose |-> None, readings_count |-> 0]

\* C10: a patient without a reading in the trailing 7 days is summarized by
\* avg_glucose = null, last_reading = null and readings_count = 0.
C10_EmptyWindowIsNull ==
  last.op = "patients" =>
    \A p \in DOMAIN last.patients :
      TrailingRows(p, last.t) = {} => last.patients[p] = NoData

\* C10 witness: a summary of a patient all of whose readings are older than
\* the window.
C10_Witness ==
  /\ last.op = "patients"
  /\ \E p \in DOMAIN last.patients :
       /\ \E i \in 1..Len(readings) : readings[i].user_id = p
       /\ TrailingRows(p, last.t) = {}
       /\ last.patients[p].readings_count = 0

\* The patients whose readings of the trailing 7 days all hold a number
Summarizable(t) ==
  {p \in Patients(users) : \A i \in TrailingRows(p, t) : ~IsText(readings[i])}

RECURSIVE ValueSum(_)
ValueSum(ids) ==
  IF ids = {} THEN 0
  ELSE LET i == CHOOSE x \in ids : TRUE IN Value(readings[i]) + ValueSum(ids \ {i})

\* C15: a patient with a reading in the trailing 7 days is summarized with
\* readings_count equal to the number of those readings, with a last_reading
\* that is the value of one of them, and with an avg_glucose within half a
\* tenth of their mean; neither is null, also when it is 0.
C15_NonEmptyWindowHasValues ==
  (last.op = "patients" /\ last.success) =>
    \A p \in DOMAIN last.patients :
      LET ids == TrailingRows(p, last.t)
          n == Cardinality(ids)
          e == last.patients[p] IN
      ids # {} =>
        /\ e.readings_count = n
        /\ e.last_reading # None
        /\ \E i \in ids : e.last_reading = readings[i].reading_value
        /\ e.avg_glucose # None
        /\ 2 * (e.avg_glucose[1] * n - ValueSum(ids)) <= n
        /\ 2 * (ValueSum(ids) - e.avg_glucose[1] * n) <= n

\* C13: a manual submission whose value is missing or no number answers with
\* status 400 and adds no reading; one whose value is a number adds exactly
\* one reading, not synced, and returns its id.
C13_InvalidValueIsValidationError ==
  [][last'.op = "add_glucose" =>
       IF last'.data.kind = "number"
         THEN /\ last'.success
              /\ Len(readings') = Len(readings) + 1
              /\ SubSeq(readings', 1, Len(readings)) = readings
              /\ readings'[Len(readings')].reading_value = Some(last'.data.v)
              /\ ~readings'[Len(readings')].is_synced
              /\ last'.reading_id = Some(Len(readings'))
         ELSE /\ ~last'.success
              /\ last'.code = 400
              /\ readings' = readings]_vars

\* The four tables of the store
Store == <<users, readings, comments, food_logs>>

\* Requests that write the store: add reading, add comment, add food log,
\* register
MutatingOps == {"add_glucose", "add_comment", "add_food_log", "register"}

\* C14: a storage-mutating request (add reading, add clinician comment, add
\* food log, register) that answers success = false leaves the store as it
\* was before the request, also when it fails after its write step.
C14_FailureCommitsNothing ==
  [][last'.op \in MutatingOps /\ ~last'.success => Store' = Store]_vars

\* C12: the glucose timeline is append-only.  No step of any operation
\* (manual submission, sync, queries, summary, comment, food log, chat,
\* registration) changes the owner, value, timestamp or synced flag of a
\* committed reading or removes it: the table after the step starts with
\* the table before it.
C12_TimelineAppendOnly ==
  [][/\ Len(readings') >= Len(readings)
     /\ SubSeq(readings', 1, Len(readings)) = readings]_vars

\* A sync has appended one reading to a timeline that held a synced one
C12_Witness ==
  /\ last.op = "sync"
  /\ last.success
  /\ last.readings_added = Some(1)
  /\ Len(readings) >= 2
  /\ \E i \in 1..(Len(readings) - 1) : readings[i].is_synced

====
